---------------------------- MODULE Spec2Model ----------------------------
(***************************************************************************)
(* Model of packages/remix-node/data.ts: loadRouteData, callRouteAction,   *)
(* isResponse and timer.                                                   *)
(*                                                                         *)
(* Two specifications share the module.  Spec runs calls of loadRouteData  *)
(* and callRouteAction against route handlers that settle later;           *)
(* TimerSpec runs concurrent calls of timer on one shared timings object,  *)
(* with the continuations after `await` scheduled through the job queue.   *)
(***************************************************************************)
EXTENDS Integers, Sequences, FiniteSets, TLC

(***************************************************************************)
(* JavaScript values.  A value is a record tagged with its kind; an object *)
(* carries the four properties isResponse reads, each holding an abstract  *)
(* value of the named kind.                                                *)
(***************************************************************************)
Undefined == [t |-> "undefined"]
Null == [t |-> "null"]
Primitives == {Undefined, Null, [t |-> "number"], [t |-> "string"]}

StatusVals == {"number", "undefined", "null"}
StatusTextVals == {"string", "undefined"}
HeadersVals == {"object", "null", "undefined"}
BodyVals == {"undefined", "null", "string"}

Objects ==
  [t : {"object"}, status : StatusVals, statusText : StatusTextVals,
   headers : HeadersVals, body : BodyVals]

\* Everything a handler can resolve to.
AppData == Primitives \cup Objects

\* The reasons a handler can reject (or throw) with.
HandlerErrors == {[type |-> "HandlerError", id |-> 1], [type |-> "HandlerError", id |-> 2]}

\* typeof x, for the abstract property values: typeof null is "object".
TypeOf(x) == IF x = "null" THEN "object" ELSE x

\* value.prop: primitives (number, string) have none of the four properties.
Get(value, prop) == IF value.t = "object" THEN value[prop] ELSE "undefined"

\* json(data) of ./responses: a Response built around the serialised data.
json(data) == [t |-> "json", data |-> data]

\* isResponse without its last conjunct, the check of value.body.
isResponseNoBody(value) ==
  /\ value.t \notin {"null", "undefined"}
  /\ TypeOf(Get(value, "status")) = "number"
  /\ TypeOf(Get(value, "statusText")) = "string"
  /\ TypeOf(Get(value, "headers")) = "object"

isResponse(value) ==
  /\ value.t \notin {"null", "undefined"}
  /\ TypeOf(Get(value, "status")) = "number"
  /\ TypeOf(Get(value, "statusText")) = "string"
  /\ TypeOf(Get(value, "headers")) = "object"
  /\ TypeOf(Get(value, "body")) # "undefined"

(***************************************************************************)
(* The inputs of a call.                                                   *)
(***************************************************************************)
RouteIds == {"r1", "r2"}
\* A route id the build does not hold.
CallRouteIds == RouteIds \cup {"r3"}
\* A route module: whether it exports a loader, an action.
Modules == [loader : BOOLEAN, action : BOOLEAN]
Builds == [RouteIds -> Modules]
Requests == [method : {"POST", "DELETE"}, url : {"/a", "/b"}]
Contexts == {"ctx1", "ctx2"}
ParamsSet == {"params1", "params2"}
Timers == {"timer", "otherTimer"}

Resolved(v) == [kind |-> "resolved", value |-> v]
Rejected(e) == [kind |-> "rejected", error |-> e]
Pending == [kind |-> "pending"]
NoPromise == [kind |-> "none"]

VARIABLES
  pc,           \* "idle", "awaiting" (suspended at the await), "done"
  call,         \* the running call: its function and its arguments
  invocations,  \* the handler invocations the running call has made
  promise,      \* what the handler returned: pending, resolved or rejected
  outcome       \* what the call's own promise settled to

routeVars == <<pc, call, invocations, promise, outcome>>

NoCall == [fn |-> "none"]

RouteInit ==
  /\ pc = "idle"
  /\ call = NoCall
  /\ invocations = <<>>
  /\ promise = NoPromise
  /\ outcome = NoPromise


(***************************************************************************)
(* The errors the two functions raise themselves.  A message is modelled   *)
(* by what it interpolates.                                                *)
(***************************************************************************)
LoaderUndefinedError(routeId) ==
  [type |-> "Error", about |-> "loader returned nothing", routeId |-> routeId]

ActionUndefinedError(routeId) ==
  [type |-> "Error", about |-> "action returned nothing", routeId |-> routeId]

NoActionError(request, routeId) ==
  [type |-> "Error", about |-> "no action", method |-> request.method,
   url |-> request.url, routeId |-> routeId]

\* build.routes[routeId].module when build.routes[routeId] is undefined.
RouteTypeError == [type |-> "TypeError"]

\* The argument object handed to the loader.
LoaderArgs(request, context, params, time) ==
  [request |-> request, context |-> context, params |-> params, time |-> time]

\* ActionArgs with context and params taking each other's place.
ActionArgsSwapped(request, context, params, time) ==
  [request |-> request, context |-> params, params |-> context, time |-> time]

\* The argument object handed to the action.
ActionArgs(request, context, params, time) ==
  [request |-> request, context |-> context, params |-> params, time |-> time]

Invocation(handler, routeId, args) ==
  [handler |-> handler, routeId |-> routeId, args |-> args]

CallRecord(fn, build, routeId, request, context, params, time) ==
  [fn |-> fn, build |-> build, routeId |-> routeId, request |-> request,
   context |-> context, params |-> params, time |-> time]

\* The call's own promise settles at once, no handler invoked.
SettleAtOnce(o) ==
  /\ pc' = "done"
  /\ outcome' = o
  /\ UNCHANGED <<invocations, promise>>

\* The handler is invoked once: it throws, or returns something to await.
InvokeHandler(inv) ==
  /\ invocations' = Append(invocations, inv)
  /\ \/ \E e \in HandlerErrors :
          /\ promise' = [kind |-> "threw", error |-> e]
          /\ outcome' = Rejected(e)
          /\ pc' = "done"
     \/ /\ promise' = Pending
        /\ pc' = "awaiting"
        /\ UNCHANGED outcome

\* loadRouteData treating a missing loader as callRouteAction treats a
\* missing action.
loadRouteDataNoLoaderThrows ==
  SettleAtOnce(Rejected([type |-> "Error", about |-> "no loader"]))

\* loadRouteData when the module has no loader.
loadRouteDataNoLoader == SettleAtOnce(Resolved(json(Null)))

\* loadRouteData up to its await.
loadRouteData(build, routeId, request, context, params, time) ==
  /\ call' = CallRecord("loadRouteData", build, routeId, request, context, params, time)
  /\ IF routeId \notin DOMAIN build
       THEN SettleAtOnce(Rejected(RouteTypeError))
       ELSE IF ~build[routeId].loader
              THEN loadRouteDataNoLoader
              ELSE InvokeHandler(Invocation("loader", routeId,
                                            LoaderArgs(request, context, params, time)))

\* callRouteAction treating a missing action as loadRouteData treats a
\* missing loader.
callRouteActionNoActionNull(request, routeId) ==
  SettleAtOnce(Resolved(json(Null)))

\* callRouteAction when the module has no action.
callRouteActionNoAction(request, routeId) ==
  SettleAtOnce(Rejected(NoActionError(request, routeId)))

\* callRouteAction up to its await.
callRouteAction(build, routeId, request, context, params, time) ==
  /\ call' = CallRecord("callRouteAction", build, routeId, request, context, params, time)
  /\ IF routeId \notin DOMAIN build
       THEN SettleAtOnce(Rejected(RouteTypeError))
       ELSE IF ~build[routeId].action
              THEN callRouteActionNoAction(request, routeId)
              ELSE InvokeHandler(Invocation("action", routeId,
                                            ActionArgs(request, context, params, time)))

\* The promise the handler returned settles (the handler's own doing).
HandlerResolves ==
  /\ pc = "awaiting"
  /\ promise = Pending
  /\ \E v \in AppData : promise' = Resolved(v)
  /\ UNCHANGED <<pc, call, invocations, outcome>>

HandlerRejects ==
  /\ pc = "awaiting"
  /\ promise = Pending
  /\ \E e \in HandlerErrors : promise' = Rejected(e)
  /\ UNCHANGED <<pc, call, invocations, outcome>>

\* `await p` on a rejected p throws p's reason out of the async function.
AwaitRejected(e) == Rejected(e)

\* loadRouteData testing `result == null`, which null satisfies too.
loadRouteDataResultNullish(routeId, result) ==
  IF result \in {Undefined, Null}
    THEN Rejected(LoaderUndefinedError(routeId))
    ELSE Resolved(IF isResponse(result) THEN result ELSE json(result))

\* loadRouteData from the value the await produced.
loadRouteDataResult(routeId, result) ==
  IF result = Undefined
    THEN Rejected(LoaderUndefinedError(routeId))
    ELSE Resolved(IF isResponse(result) THEN result ELSE json(result))

\* callRouteAction from the value the await produced.
callRouteActionResult(routeId, result) ==
  IF result = Undefined
    THEN Rejected(ActionUndefinedError(routeId))
    ELSE Resolved(IF isResponse(result) THEN result ELSE json(result))

loadRouteDataResume ==
  /\ pc = "awaiting"
  /\ call.fn = "loadRouteData"
  /\ promise.kind \in {"resolved", "rejected"}
  /\ outcome' = IF promise.kind = "rejected"
                  THEN AwaitRejected(promise.error)
                  ELSE loadRouteDataResult(call.routeId, promise.value)
  /\ pc' = "done"
  /\ UNCHANGED <<call, invocations, promise>>

callRouteActionResume ==
  /\ pc = "awaiting"
  /\ call.fn = "callRouteAction"
  /\ promise.kind \in {"resolved", "rejected"}
  /\ outcome' = IF promise.kind = "rejected"
                  THEN AwaitRejected(promise.error)
                  ELSE callRouteActionResult(call.routeId, promise.value)
  /\ pc' = "done"
  /\ UNCHANGED <<call, invocations, promise>>

\* The caller takes the settled call; the next call starts afresh.
Return ==
  /\ pc = "done"
  /\ pc' = "idle"
  /\ call' = NoCall
  /\ invocations' = <<>>
  /\ promise' = NoPromise
  /\ outcome' = NoPromise

LoadCall ==
  /\ pc = "idle"
  /\ \E build \in Builds, routeId \in CallRouteIds, request \in Requests,
        context \in Contexts, params \in ParamsSet, time \in Timers :
       loadRouteData(build, routeId, request, context, params, time)

ActionCall ==
  /\ pc = "idle"
  /\ \E build \in Builds, routeId \in CallRouteIds, request \in Requests,
        context \in Contexts, params \in ParamsSet, time \in Timers :
       callRouteAction(build, routeId, request, context, params, time)

(***************************************************************************)
(* timer: concurrent calls on one shared timings object.                   *)
(***************************************************************************)
MaxTimers == 2
MaxNow == 1

TimerIds == 1 .. MaxTimers
Names == {"n1", "n2"}
Types == {"action", "loader"}
Results == {"v1", "v2"}
FnErrors == {"e1"}

\* The timings objects a caller may pass in: empty (both types absent), or
\* with one type present and empty and the other already holding an entry.
EmptyTimings == [ty \in {} |-> <<>>]
InitialTimings ==
  {EmptyTimings,
   [ty \in {"loader", "action"} |->
      IF ty = "loader" THEN <<>> ELSE <<[name |-> "n0", time |-> 0]>>]}

VARIABLES
  timings,      \* the shared Timings record: type -> list of {name, time}
  timings0,     \* the timings object as the caller passed it
  timerCalls,   \* per call: pc, name, type, start, fn's promise, the call's result
  jobs,         \* the job queue: calls whose await continuation is scheduled
  now,          \* performance.now()
  fnDone        \* the calls whose fn resolved, in the order they resolved

timerVars == <<timings, timings0, timerCalls, jobs, now, fnDone>>

vars == <<pc, call, invocations, promise, outcome,
          timings, timings0, timerCalls, jobs, now, fnDone>>

IdleTimer ==
  [pc |-> "idle", name |-> "none", type |-> "none", start |-> 0,
   promise |-> NoPromise, result |-> NoPromise]

TimerInit ==
  /\ timings \in InitialTimings
  /\ timings0 = timings
  /\ timerCalls = [i \in TimerIds |-> IdleTimer]
  /\ jobs = <<>>
  /\ now = 0
  /\ fnDone = <<>>

\* timings[type], or the empty list the code creates when it is absent.
timingType(tm, type) == IF type \in DOMAIN tm THEN tm[type] ELSE <<>>

\* timer assigning a new list every time: timings[type] = [entry].
timerPushFresh(tm, type, entry) ==
  [ty \in DOMAIN tm \cup {type} |-> IF ty = type THEN <<entry>> ELSE tm[ty]]

\* timer adding the entry at the front: timingType.unshift(entry).
timerPushFront(tm, type, entry) ==
  [ty \in DOMAIN tm \cup {type} |->
     IF ty = type THEN <<entry>> \o timingType(tm, type) ELSE tm[ty]]

\* if (!timingType) timingType = timings[type] = []; timingType.push(entry)
timerPush(tm, type, entry) ==
  [ty \in DOMAIN tm \cup {type} |->
     IF ty = type THEN Append(timingType(tm, type), entry) ELSE tm[ty]]

\* The entry a call records when it resumes.
timerEntry(name, start) == [name |-> name, time |-> now - start]

\* timer up to its await: the clock is read and fn is invoked.  Calls take
\* their ids in the order they start.
timerStart(i, name, type) ==
  /\ timerCalls[i].pc = "idle"
  /\ \A j \in TimerIds : j < i => timerCalls[j].pc # "idle"
  /\ \/ \E e \in FnErrors :
          timerCalls' = [timerCalls EXCEPT ![i] =
            [pc |-> "done", name |-> name, type |-> type, start |-> now,
             promise |-> [kind |-> "threw", error |-> e], result |-> Rejected(e)]]
     \/ timerCalls' = [timerCalls EXCEPT ![i] =
          [pc |-> "awaiting", name |-> name, type |-> type, start |-> now,
           promise |-> Pending, result |-> NoPromise]]
  /\ UNCHANGED <<timings, timings0, jobs, now, fnDone>>

\* The job queue runs continuations in the order their promises settled.
Schedule(queue, i) == Append(queue, i)

\* fn's promise resolves: the continuation of the await is scheduled.
FnResolves(i, v) ==
  /\ timerCalls[i].pc = "awaiting"
  /\ timerCalls[i].promise = Pending
  /\ timerCalls' = [timerCalls EXCEPT ![i].promise = Resolved(v)]
  /\ jobs' = Schedule(jobs, i)
  /\ fnDone' = Append(fnDone, i)
  /\ UNCHANGED <<timings, timings0, now>>

FnRejects(i, e) ==
  /\ timerCalls[i].pc = "awaiting"
  /\ timerCalls[i].promise = Pending
  /\ timerCalls' = [timerCalls EXCEPT ![i].promise = Rejected(e)]
  /\ jobs' = Schedule(jobs, i)
  /\ UNCHANGED <<timings, timings0, now, fnDone>>

\* The first scheduled continuation runs to the end of timer, unpreempted:
\* it records the entry and resolves, or rethrows fn's rejection.
timerResume ==
  /\ jobs # <<>>
  /\ LET i == Head(jobs)
         c == timerCalls[i]
     IN  /\ jobs' = Tail(jobs)
         /\ IF c.promise.kind = "resolved"
              THEN /\ timings' = timerPush(timings, c.type, timerEntry(c.name, c.start))
                   /\ timerCalls' = [timerCalls EXCEPT ![i].pc = "done",
                                                       ![i].result = Resolved(c.promise.value)]
              ELSE /\ timings' = timings
                   /\ timerCalls' = [timerCalls EXCEPT ![i].pc = "done",
                                                       ![i].result = AwaitRejected(c.promise.error)]
  /\ UNCHANGED <<timings0, now, fnDone>>

\* Time passes.  Only the time that passes while some fn is running shows
\* in an entry (now - start), so the clock is advanced only then.
Tick ==
  /\ now < MaxNow
  /\ \E i \in TimerIds : timerCalls[i].promise = Pending
  /\ now' = now + 1
  /\ UNCHANGED <<timings, timings0, timerCalls, jobs, fnDone>>

TimerStartCall == \E i \in TimerIds, name \in Names, type \in Types : timerStart(i, name, type)

FnResolvesSome == \E i \in TimerIds, v \in Results : FnResolves(i, v)

FnRejectsSome == \E i \in TimerIds, e \in FnErrors : FnRejects(i, e)

\* No timer call runs under Spec, no route call under TimerSpec.
TimerIdle ==
  /\ timings = EmptyTimings
  /\ timings0 = EmptyTimings
  /\ timerCalls = [i \in TimerIds |-> IdleTimer]
  /\ jobs = <<>>
  /\ now = 0
  /\ fnDone = <<>>

Init == RouteInit /\ TimerIdle

Next ==
  \/ LoadCall /\ UNCHANGED timerVars
  \/ ActionCall /\ UNCHANGED timerVars
  \/ HandlerResolves /\ UNCHANGED timerVars
  \/ HandlerRejects /\ UNCHANGED timerVars
  \/ loadRouteDataResume /\ UNCHANGED timerVars
  \/ callRouteActionResume /\ UNCHANGED timerVars
  \/ Return /\ UNCHANGED timerVars

Spec == Init /\ [][Next]_vars

TimerSpecInit == RouteInit /\ TimerInit

TimerSpecNext ==
  \/ TimerStartCall /\ UNCHANGED routeVars
  \/ FnResolvesSome /\ UNCHANGED routeVars
  \/ FnRejectsSome /\ UNCHANGED routeVars
  \/ timerResume /\ UNCHANGED routeVars
  \/ Tick /\ UNCHANGED routeVars

TimerSpec == TimerSpecInit /\ [][TimerSpecNext]_vars

(***************************************************************************)
(* The claims.                                                             *)
(***************************************************************************)

\* The route's handler for the running call exists.
HandlerExists ==
  /\ call.routeId \in DOMAIN call.build
  /\ IF call.fn = "loadRouteData"
       THEN call.build[call.routeId].loader
       ELSE call.build[call.routeId].action

\* Response-shaped, as the claim words it: non-null, numeric status, string
\* statusText, headers of type object (typeof null is "object" too), body
\* not undefined.
ResponseShaped(v) ==
  /\ v.t = "object"
  /\ v.status = "number"
  /\ v.statusText = "string"
  /\ v.headers \in {"object", "null"}
  /\ v.body # "undefined"

\* C1: for loadRouteData and callRouteAction alike, when the handler resolves
\* to a value other than undefined the call resolves to a Response: the
\* handler's own result, unchanged, when it is Response-shaped, and
\* json(result) otherwise (json(null) for null).
C1_ResultNormalised ==
  (pc = "done" /\ promise.kind = "resolved" /\ promise.value # Undefined)
    => /\ outcome.kind = "resolved"
       /\ IF ResponseShaped(promise.value)
            THEN outcome.value = promise.value
            ELSE outcome.value = [t |-> "json", data |-> promise.value]

C1_Witness ==
  /\ pc = "done"
  /\ call.fn = "loadRouteData"
  /\ promise.kind = "resolved"
  /\ promise.value.t = "object"
  /\ ResponseShaped(promise.value)
  /\ outcome = [kind |-> "resolved", value |-> promise.value]

\* C2: a handler that resolves to undefined makes loadRouteData and
\* callRouteAction fail with an error naming the route id, never a Response;
\* no other handler result (null included) fails the call.
C2_UndefinedIsTheOnlyError ==
  (pc = "done" /\ promise.kind = "resolved")
    => IF promise.value = Undefined
         THEN /\ outcome.kind = "rejected"
              /\ outcome.error.type = "Error"
              /\ outcome.error.routeId = call.routeId
              /\ outcome.error.about =
                   (IF call.fn = "loadRouteData" THEN "loader returned nothing"
                                                 ELSE "action returned nothing")
         ELSE outcome.kind = "resolved"

C2_Witness ==
  /\ pc = "done"
  /\ call.fn = "callRouteAction"
  /\ promise = [kind |-> "resolved", value |-> Undefined]
  /\ outcome.kind = "rejected"
  /\ outcome.error.routeId = "r2"

\* C3: callRouteAction on a route whose module has no action fails with an
\* error mentioning the request method, the request URL and the route id,
\* and invokes no handler: neither the action nor the loader.
C3_NoActionFails ==
  (/\ call.fn = "callRouteAction"
   /\ call.routeId \in DOMAIN call.build
   /\ ~call.build[call.routeId].action)
    => /\ pc = "done"
       /\ invocations = <<>>
       /\ promise.kind = "none"
       /\ outcome.kind = "rejected"
       /\ outcome.error.type = "Error"
       /\ outcome.error.about = "no action"
       /\ outcome.error.method = call.request.method
       /\ outcome.error.url = call.request.url
       /\ outcome.error.routeId = call.routeId

C3_Witness ==
  /\ pc = "done"
  /\ call.fn = "callRouteAction"
  /\ call.routeId = "r1"
  /\ call.build["r1"] = [loader |-> TRUE, action |-> FALSE]
  /\ call.request = [method |-> "DELETE", url |-> "/b"]
  /\ outcome.kind = "rejected"
  /\ invocations = <<>>

\* C4: loadRouteData on a route whose module has no loader resolves to
\* json(null), invoking no handler and raising no error.
C4_NoLoaderIsNull ==
  (/\ call.fn = "loadRouteData"
   /\ call.routeId \in DOMAIN call.build
   /\ ~call.build[call.routeId].loader)
    => /\ pc = "done"
       /\ invocations = <<>>
       /\ promise.kind = "none"
       /\ outcome = [kind |-> "resolved", value |-> [t |-> "json", data |-> Null]]

C4_Witness ==
  /\ pc = "done"
  /\ call.fn = "loadRouteData"
  /\ call.routeId = "r2"
  /\ call.build["r2"] = [loader |-> FALSE, action |-> TRUE]
  /\ outcome.kind = "resolved"
  /\ invocations = <<>>

\* The one invocation the running call owes its handler: the handler of
\* the call's own route, with the caller's request, context, params, time.
ExpectedInvocation ==
  [handler |-> IF call.fn = "loadRouteData" THEN "loader" ELSE "action",
   routeId |-> call.routeId,
   args |-> [request |-> call.request, context |-> call.context,
             params |-> call.params, time |-> call.time]]

\* C6: in one call of loadRouteData or callRouteAction the handler is invoked
\* exactly once when it exists and not at all otherwise, with the caller's
\* request, context, params and time; the call settles only after the
\* invocation has settled; a handler rejection becomes the call's own
\* failure, not a Response.
C6_OneInvocation ==
  pc # "idle"
    => /\ invocations = IF HandlerExists THEN <<ExpectedInvocation>> ELSE <<>>
       /\ promise.kind = "pending" => (pc = "awaiting" /\ outcome.kind = "none")
       /\ (pc = "done" /\ HandlerExists) => promise.kind \in {"resolved", "rejected", "threw"}
       /\ (pc = "done" /\ promise.kind \in {"rejected", "threw"})
            => outcome = [kind |-> "rejected", error |-> promise.error]

C6_Witness ==
  /\ pc = "done"
  /\ call.fn = "callRouteAction"
  /\ Len(invocations) = 1
  /\ invocations[1].args.context = "ctx2"
  /\ invocations[1].args.params = "params1"
  /\ promise.kind = "rejected"
  /\ outcome = [kind |-> "rejected", error |-> promise.error]

\* The list of a type, the empty list when the type is absent.
ListOf(tm, type) == IF type \in DOMAIN tm THEN tm[type] ELSE <<>>

\* C5: a timer call whose fn resolved, on completing, leaves timings[type]
\* (an empty list if it was absent) with exactly one more entry, appended at
\* the end and carrying the call's name; the earlier entries of that type and
\* the lists of the other type are unchanged; the call resolves to the value
\* fn resolved to.
C5_TimerRecords ==
  [][\A i \in TimerIds :
       (/\ timerCalls[i].pc = "awaiting"
        /\ timerCalls'[i].pc = "done"
        /\ timerCalls[i].promise.kind = "resolved")
         => LET type == timerCalls[i].type
                old == ListOf(timings, type)
                new == ListOf(timings', type)
            IN  /\ DOMAIN timings' = DOMAIN timings \cup {type}
                /\ Len(new) = Len(old) + 1
                /\ SubSeq(new, 1, Len(old)) = old
                /\ new[Len(new)].name = timerCalls[i].name
                /\ \A ty \in DOMAIN timings \ {type} : timings'[ty] = timings[ty]
                /\ timerCalls'[i].result =
                     [kind |-> "resolved", value |-> timerCalls[i].promise.value]]_vars

C5_Witness ==
  /\ "loader" \notin DOMAIN timings0
  /\ "loader" \in DOMAIN timings
  /\ Len(timings["loader"]) = 2
  /\ timings["loader"][2].name = "n2"
  /\ timerCalls[2].pc = "done"
  /\ timerCalls[2].result = [kind |-> "resolved", value |-> "v2"]
  /\ ListOf(timings, "action") = ListOf(timings0, "action")

\* The calls of a type whose fn resolved and whose continuation has run, in
\* the order their fn resolved.
RecordedOf(type) ==
  LET Test(i) == timerCalls[i].type = type /\ timerCalls[i].pc = "done"
  IN  SelectSeq(fnDone, Test)

\* The entries of a type added since the timings object was passed in.
AddedOf(type) ==
  SubSeq(ListOf(timings, type), Len(ListOf(timings0, type)) + 1, Len(ListOf(timings, type)))

\* C7: for concurrent timer calls on one timings object, under every
\* interleaving of the fn completions, no entry is lost or overwritten: the
\* entries of a type are the initial ones followed by one entry per completed
\* call of that type, in the order in which the calls' fn resolved; once no
\* continuation is left to run, the entries added number the calls whose fn
\* resolved.
C7_NoLostEntryCompletionOrder ==
  /\ \A type \in Types :
       LET list == ListOf(timings, type)
           list0 == ListOf(timings0, type)
           added == AddedOf(type)
           recorded == RecordedOf(type)
       IN  /\ Len(list) >= Len(list0)
           /\ SubSeq(list, 1, Len(list0)) = list0
           /\ Len(added) = Len(recorded)
           /\ \A k \in 1 .. Len(added) : added[k].name = timerCalls[recorded[k]].name
  /\ jobs = <<>> => Len(AddedOf("action")) + Len(AddedOf("loader")) = Len(fnDone)

\* Both calls find timings.loader absent; the call started second completes
\* first and its entry comes first.
C7_Witness ==
  /\ "loader" \notin DOMAIN timings0
  /\ fnDone = <<2, 1>>
  /\ jobs = <<>>
  /\ timerCalls[1].type = "loader"
  /\ timerCalls[2].type = "loader"
  /\ timerCalls[1].name = "n1"
  /\ timerCalls[2].name = "n2"
  /\ Len(timings["loader"]) = 2
  /\ timings["loader"][1].name = "n2"
  /\ timings["loader"][2].name = "n1"
=============================================================================
